---- MODULE Spec2Model ----
(***************************************************************************)
(* A model of github.com/go-anyway/framework-log: the Options / Config     *)
(* configuration model (options.go), the logger factory and the global     *)
(* logger slot (log.go), the context field extractor (log.go) and the gin  *)
(* writer adapters.                                                        *)
(***************************************************************************)
EXTENDS Integers, Sequences, FiniteSets, TLC

VARIABLES
    o,       \* options.go: the *Options value under construction
    oPrev,   \* the value of o before the last operation on it
    op,      \* the last operation applied (a record; op.name names it)
    cfg,     \* options.go: the *Config loaded from a configuration source
    verr,    \* the error the last cfg.Validate() returned
    std,     \* log.go: the global logger, var std *zap.Logger
    lastInit,\* the options the last completed Init call was given
    ctx,     \* the request context a caller is building and passing around
    w,       \* the adapters the HTTP framework holds (gin.DefaultWriter,
             \* gin.DefaultErrorWriter), each a *zapWriter or unset
    ev,      \* what the last call on the logging API did and returned
    mu,      \* log.go: var mu sync.Mutex, guarding the writes of std
    gor      \* the goroutines that call the logging API concurrently: where
             \* each one is in Init and which loggers' construction
             \* happens before its next step

optVars == <<o, oPrev, op, cfg, verr>>
concVars == <<mu, gor>>
logVars == <<std, lastInit, ctx, w, ev, mu, gor>>
vars == <<o, oPrev, op, cfg, verr, std, lastInit, ctx, w, ev, mu, gor>>

(***************************************************************************)
(* Bounds of the model.                                                    *)
(***************************************************************************)
MaxApply == 2       \* options applied to one Options value
MaxOpts == 2        \* options given to one Init call
MaxMsg == 2         \* bytes in one Write on an adapter
MaxCtx == 3         \* values a context chain carries

(***************************************************************************)
(* zapcore levels (go.uber.org/zap/zapcore), as used by log.go.            *)
(***************************************************************************)
DebugLevel == -1
InfoLevel == 0
WarnLevel == 1
ErrorLevel == 2
DPanicLevel == 3
PanicLevel == 4
FatalLevel == 5

\* The seven severity strings options.go documents for Options.Level.
SevenLevels == {"debug", "info", "warn", "error", "dpanic", "panic", "fatal"}

\* The level strings the model passes to WithLevel and loads into Config.
LevelStrings == SevenLevels \cup {"", "WARN", "Info", "invalid-level", "bogus"}

\* bytes.ToLower on the level strings and path names of the model.
ToLower(s) ==
    CASE s = "WARN" -> "warn"
      [] s = "Info" -> "info"
      [] s = "STDOUT" -> "stdout"
      [] s = "Stderr" -> "stderr"
      [] OTHER -> s

\* zapcore.Level.unmarshalText: the exact spellings it has a case for.
\* The result is <<ok, level>>.
unmarshalText(text) ==
    CASE text \in {"debug", "DEBUG"} -> <<TRUE, DebugLevel>>
      [] text \in {"info", "INFO", ""} -> <<TRUE, InfoLevel>>
      [] text \in {"warn", "WARN"} -> <<TRUE, WarnLevel>>
      [] text \in {"error", "ERROR"} -> <<TRUE, ErrorLevel>>
      [] text \in {"dpanic", "DPANIC"} -> <<TRUE, DPanicLevel>>
      [] text \in {"panic", "PANIC"} -> <<TRUE, PanicLevel>>
      [] text \in {"fatal", "FATAL"} -> <<TRUE, FatalLevel>>
      [] OTHER -> <<FALSE, InfoLevel>>

\* zapcore.Level.UnmarshalText as WithLevel and New call it: the text as
\* given, then its lower-case form.  <<TRUE, l>> is a nil error.
UnmarshalText(text) ==
    IF unmarshalText(text)[1] THEN unmarshalText(text)
    ELSE unmarshalText(ToLower(text))

(***************************************************************************)
(* options.go: Options, NewOptions, the With* options and Apply.           *)
(***************************************************************************)
NewOptionsDebug ==
    [ OutputPaths |-> <<"stdout">>,
      ErrorOutputPaths |-> <<"stderr">>,
      Level |-> "debug",
      Format |-> "console",
      DisableCaller |-> FALSE,
      DisableStacktrace |-> FALSE,
      Filename |-> "",
      MaxSize |-> 0,
      MaxAge |-> 0,
      MaxBackups |-> 0,
      Compress |-> FALSE,
      Development |-> FALSE ]

NewOptions ==
    [ OutputPaths |-> <<"stdout">>,
      ErrorOutputPaths |-> <<"stderr">>,
      Level |-> "info",
      Format |-> "console",
      DisableCaller |-> FALSE,
      DisableStacktrace |-> FALSE,
      Filename |-> "",
      MaxSize |-> 0,
      MaxAge |-> 0,
      MaxBackups |-> 0,
      Compress |-> FALSE,
      Development |-> FALSE ]

WithLevel(opts, level) ==
    IF UnmarshalText(level)[1] THEN [opts EXCEPT !.Level = level] ELSE opts

WithFormat(opts, format) == [opts EXCEPT !.Format = format]

WithOutputPaths(opts, paths) == [opts EXCEPT !.OutputPaths = paths]

WithErrorOutputPaths(opts, paths) == [opts EXCEPT !.ErrorOutputPaths = paths]

WithDisableCaller(opts, disable) == [opts EXCEPT !.DisableCaller = disable]

WithDisableStacktrace(opts, disable) == [opts EXCEPT !.DisableStacktrace = disable]

WithFilename(opts, filename) == [opts EXCEPT !.Filename = filename]

WithMaxSize(opts, maxSize) == [opts EXCEPT !.MaxSize = maxSize]

WithMaxAge(opts, maxAge) == [opts EXCEPT !.MaxAge = maxAge]

WithMaxBackups(opts, maxBackups) == [opts EXCEPT !.MaxBackups = maxBackups]

WithCompress(opts, compress) == [opts EXCEPT !.Compress = compress]

WithDevelopment(opts, development) == [opts EXCEPT !.Development = development]

\* An Option value is modelled by the With* call that made the closure:
\* [name |-> the constructor, arg |-> its argument].
PathLists == {<<>>, <<"stdout">>, <<"Stderr", "stdout">>, <<"app.log">>,
              <<"STDOUT", "stdout">>}

Option ==
    [name : {"WithLevel"}, arg : LevelStrings]
    \cup [name : {"WithFormat"}, arg : {"json", "console", "xml"}]
    \cup [name : {"WithOutputPaths", "WithErrorOutputPaths"}, arg : PathLists]
    \cup [name : {"WithDisableCaller", "WithDisableStacktrace",
                  "WithCompress", "WithDevelopment"}, arg : BOOLEAN]
    \cup [name : {"WithFilename"}, arg : {"", "app.log"}]
    \cup [name : {"WithMaxSize", "WithMaxAge", "WithMaxBackups"}, arg : {-1, 1}]

\* opt(o): calling the closure on an Options value.
CallOption(opt, opts) ==
    CASE opt.name = "WithLevel" -> WithLevel(opts, opt.arg)
      [] opt.name = "WithFormat" -> WithFormat(opts, opt.arg)
      [] opt.name = "WithOutputPaths" -> WithOutputPaths(opts, opt.arg)
      [] opt.name = "WithErrorOutputPaths" -> WithErrorOutputPaths(opts, opt.arg)
      [] opt.name = "WithDisableCaller" -> WithDisableCaller(opts, opt.arg)
      [] opt.name = "WithDisableStacktrace" -> WithDisableStacktrace(opts, opt.arg)
      [] opt.name = "WithFilename" -> WithFilename(opts, opt.arg)
      [] opt.name = "WithMaxSize" -> WithMaxSize(opts, opt.arg)
      [] opt.name = "WithMaxAge" -> WithMaxAge(opts, opt.arg)
      [] opt.name = "WithMaxBackups" -> WithMaxBackups(opts, opt.arg)
      [] opt.name = "WithCompress" -> WithCompress(opts, opt.arg)
      [] opt.name = "WithDevelopment" -> WithDevelopment(opts, opt.arg)

\* Options.Apply: the options in call order.
RECURSIVE Apply(_, _)
Apply(opts, options) ==
    IF options = <<>> THEN opts
    ELSE Apply(CallOption(Head(options), opts), Tail(options))

(***************************************************************************)
(* options.go: Config, Validate, ToOptions.                                *)
(***************************************************************************)
NilConfig == [nil |-> TRUE]     \* a nil *Config
NotCalled == "not called"
NoError == "nil"         \* a nil error

\* The Config values a configuration source may deliver to the model.
Config ==
    [ Level : LevelStrings,
      Format : {"", "json", "console", "xml"},
      OutputPaths : {<<>>},
      ErrorOutputPaths : {<<>>},
      DisableCaller : {FALSE},
      DisableStacktrace : {FALSE},
      Filename : {""},
      MaxSize : {-1, 0, 100},
      MaxAge : {-1, 0, 7},
      MaxBackups : {-1, 0, 3},
      Compress : {FALSE},
      Development : BOOLEAN ]

\* Config.Validate: the first failing check decides the error returned.
ValidateNoMaxAge(c) ==
    IF c = NilConfig THEN "log config cannot be nil"
    ELSE IF c.Level # "" /\ c.Level \notin SevenLevels THEN "log.level must be one of"
    ELSE IF c.Format # "" /\ c.Format \notin {"json", "console"}
        THEN "log.format must be one of"
    ELSE IF c.MaxSize < 0 THEN "log.max_size must be non-negative"
    ELSE IF c.MaxBackups < 0 THEN "log.max_backups must be non-negative"
    ELSE NoError

ValidateAnyCase(c) ==
    IF c = NilConfig THEN "log config cannot be nil"
    ELSE IF c.Level # "" /\ ~UnmarshalText(c.Level)[1] THEN "log.level must be one of"
    ELSE IF c.Format # "" /\ c.Format \notin {"json", "console"}
        THEN "log.format must be one of"
    ELSE IF c.MaxSize < 0 THEN "log.max_size must be non-negative"
    ELSE IF c.MaxAge < 0 THEN "log.max_age must be non-negative"
    ELSE IF c.MaxBackups < 0 THEN "log.max_backups must be non-negative"
    ELSE NoError

Validate(c) ==
    IF c = NilConfig THEN "log config cannot be nil"
    ELSE IF c.Level # "" /\ c.Level \notin SevenLevels THEN "log.level must be one of"
    ELSE IF c.Format # "" /\ c.Format \notin {"json", "console"}
        THEN "log.format must be one of"
    ELSE IF c.MaxSize < 0 THEN "log.max_size must be non-negative"
    ELSE IF c.MaxAge < 0 THEN "log.max_age must be non-negative"
    ELSE IF c.MaxBackups < 0 THEN "log.max_backups must be non-negative"
    ELSE NoError

\* ToLogOptionsFromConfig: every field copied over a fresh NewOptions().
ToLogOptionsFromConfig(c) ==
    IF c = NilConfig THEN NewOptions
    ELSE [ OutputPaths |-> c.OutputPaths,
           ErrorOutputPaths |-> c.ErrorOutputPaths,
           Level |-> c.Level,
           Format |-> c.Format,
           DisableCaller |-> c.DisableCaller,
           DisableStacktrace |-> c.DisableStacktrace,
           Filename |-> c.Filename,
           MaxSize |-> c.MaxSize,
           MaxAge |-> c.MaxAge,
           MaxBackups |-> c.MaxBackups,
           Compress |-> c.Compress,
           Development |-> c.Development ]

\* Config.ToOptions
ToOptions(c) == IF c = NilConfig THEN NewOptions ELSE ToLogOptionsFromConfig(c)

\* No Options value under construction and no Config loaded.
OptsIdle ==
    /\ o = NewOptions
    /\ oPrev = NewOptions
    /\ op = [name |-> "NewOptions", n |-> 0]
    /\ cfg = NilConfig
    /\ verr = NotCalled

(***************************************************************************)
(* log.go: the logger factory New, with the part of zap it configures.     *)
(* A *zap.Logger is a record: id is the identity of the instance (its      *)
(* address), the other fields are what zap.New was given.                  *)
(***************************************************************************)
Stdout == [kind |-> "stdout"]      \* zapcore.AddSync(os.Stdout)
Stderr == [kind |-> "stderr"]      \* zapcore.AddSync(os.Stderr)

\* zapcore.AddSync(&lumberjack.Logger{...})
LumberJack(opts) ==
    [ kind |-> "file",
      Filename |-> opts.Filename,
      MaxSize |-> opts.MaxSize,
      MaxBackups |-> opts.MaxBackups,
      MaxAge |-> opts.MaxAge,
      Compress |-> opts.Compress ]

RECURSIVE consoleWritersNoDedup(_, _)
consoleWritersNoDedup(paths, seen) ==
    IF paths = <<>> THEN <<>>
    ELSE LET lowerPath == ToLower(Head(paths)) IN
         IF lowerPath = "stdout"
         THEN <<Stdout>> \o consoleWritersNoDedup(Tail(paths), seen)
         ELSE IF lowerPath = "stderr"
         THEN <<Stderr>> \o consoleWritersNoDedup(Tail(paths), seen)
         ELSE consoleWritersNoDedup(Tail(paths), seen)

\* The loop over the configured paths in getWriteSyncer and
\* getErrorWriteSyncer; seen is the consoleWriters map.
RECURSIVE consoleWriters(_, _)
consoleWriters(paths, seen) ==
    IF paths = <<>> THEN <<>>
    ELSE LET lowerPath == ToLower(Head(paths)) IN
         IF lowerPath \notin seen /\ lowerPath = "stdout"
         THEN <<Stdout>> \o consoleWriters(Tail(paths), seen \cup {lowerPath})
         ELSE IF lowerPath \notin seen /\ lowerPath = "stderr"
         THEN <<Stderr>> \o consoleWriters(Tail(paths), seen \cup {lowerPath})
         ELSE consoleWriters(Tail(paths), seen)

\* getWriteSyncer: the writers handed to zapcore.NewMultiWriteSyncer.
getWriteSyncer(opts) ==
    (IF opts.Filename # "" THEN <<LumberJack(opts)>> ELSE <<>>)
        \o consoleWriters(opts.OutputPaths, {})

\* getErrorWriteSyncer
getErrorWriteSyncer(opts) ==
    LET writers == consoleWriters(opts.ErrorOutputPaths, {}) IN
    IF Len(writers) = 0 THEN <<Stderr>> ELSE writers

NewOptsPromoteAny(opts) ==
    IF opts.Development
    THEN [opts EXCEPT !.Level = "debug", !.DisableCaller = FALSE]
    ELSE opts

\* New, lines 45-54: what New leaves in *opts.
NewOpts(opts) ==
    IF opts.Development
    THEN [opts EXCEPT !.Level = IF @ = "info" THEN "debug" ELSE @,
                      !.DisableCaller = FALSE]
    ELSE opts

\* New, lines 56-117: the logger assembled from the adjusted options.
\* addStack is FatalLevel + 1 when zap.AddStacktrace is not given (zap.New).
New(options, id) ==
    LET opts == NewOpts(options)
        parsed == UnmarshalText(opts.Level)
    IN  [ id |-> id,
          level |-> IF parsed[1] THEN parsed[2] ELSE InfoLevel,
          encoder |-> IF opts.Format = "json" THEN "json" ELSE "console",
          ws |-> getWriteSyncer(opts),
          errorOutput |-> getErrorWriteSyncer(opts),
          addCaller |-> ~opts.DisableCaller,
          addStack |-> IF ~opts.DisableStacktrace
                       THEN (IF opts.Development THEN WarnLevel ELSE ErrorLevel)
                       ELSE FatalLevel + 1,
          development |-> opts.Development,
          fields |-> <<>> ]

\* zap.Logger.Debug/Info/Warn/Error(msg) on logger: the entries written, one
\* per writer of the core's multi-writer, none when the core's level
\* disables lvl.
RECURSIVE writeAll(_, _)
writeAll(ws, entry) ==
    IF ws = <<>> THEN <<>>
    ELSE <<[entry EXCEPT !.sink = Head(ws).kind]>> \o writeAll(Tail(ws), entry)

LogAbove(logger, lvl, msg) ==
    IF lvl > logger.level
    THEN writeAll(logger.ws,
                  [ sink |-> "", level |-> lvl, msg |-> msg,
                    fields |-> logger.fields,
                    encoder |-> logger.encoder,
                    caller |-> logger.addCaller,
                    stack |-> (lvl >= logger.addStack) ])
    ELSE <<>>

Log(logger, lvl, msg) ==
    IF lvl >= logger.level
    THEN writeAll(logger.ws,
                  [ sink |-> "", level |-> lvl, msg |-> msg,
                    fields |-> logger.fields,
                    encoder |-> logger.encoder,
                    caller |-> logger.addCaller,
                    stack |-> (lvl >= logger.addStack) ])
    ELSE <<>>

(***************************************************************************)
(* Request contexts.  A context.Context is nil or a chain of values, the   *)
(* innermost last: the parent chain extended by context.WithValue.  The    *)
(* keys are log.go's traceIDKey and requestIDKey and the tracing library's *)
(* key for the current span.                                               *)
(***************************************************************************)
NilCtx == [nil |-> TRUE, chain |-> <<>>]
Background == [nil |-> FALSE, chain |-> <<>>]        \* context.Background()

traceIDKey == "traceID"
requestIDKey == "requestID"
currentSpanKey == "span"

TraceIDLen == 16        \* trace.TraceID is [16]byte
SpanIDLen == 8          \* trace.SpanID is [8]byte
ZeroID(n) == [i \in 1..n |-> 0]
SomeID(n) == [i \in 1..n |-> IF i = 1 THEN 75 ELSE IF i = n THEN 10 ELSE 0]

\* A stored string value, and a stored span with its SpanContext.
StringEntry(key, val) == [key |-> key, val |-> val, tid |-> <<>>, sid |-> <<>>]
SpanEntry(tid, sid) == [key |-> currentSpanKey, val |-> "", tid |-> tid, sid |-> sid]

\* The spans a tracing middleware may have put in the context.
Spans == { SpanEntry(SomeID(TraceIDLen), SomeID(SpanIDLen)),
           SpanEntry(SomeID(TraceIDLen), ZeroID(SpanIDLen)) }

\* The identifiers the model's callers store.
TraceIDs == {"", "T"}
RequestIDs == {"", "R"}

\* ctx.Value(key): the innermost entry under key; found is the ok of the
\* type assertion that follows it in the code.
RECURSIVE Value(_, _)
Value(chain, key) ==
    IF chain = <<>> THEN [found |-> FALSE, entry |-> StringEntry(key, "")]
    ELSE IF chain[Len(chain)].key = key
         THEN [found |-> TRUE, entry |-> chain[Len(chain)]]
         ELSE Value(SubSeq(chain, 1, Len(chain) - 1), key)

\* context.WithValue(parent, key, val); it panics on a nil parent.
ContextWithTraceID(c, traceID) ==
    [nil |-> FALSE, chain |-> Append(c.chain, StringEntry(traceIDKey, traceID))]

ContextWithRequestID(c, requestID) ==
    [nil |-> FALSE, chain |-> Append(c.chain, StringEntry(requestIDKey, requestID))]

\* trace.SpanContext.IsValid: a non-zero trace id and a non-zero span id.
IsValid(span) ==
    /\ \E i \in 1..Len(span.tid) : span.tid[i] # 0
    /\ \E i \in 1..Len(span.sid) : span.sid[i] # 0

\* trace.TraceID.String: lower-case hex, two digits a byte.
HexDigits == <<"0", "1", "2", "3", "4", "5", "6", "7",
               "8", "9", "a", "b", "c", "d", "e", "f">>
RECURSIVE TraceIDString(_)
TraceIDString(tid) ==
    IF tid = <<>> THEN ""
    ELSE HexDigits[(Head(tid) \div 16) + 1] \o HexDigits[(Head(tid) % 16) + 1]
             \o TraceIDString(Tail(tid))

\* trace.SpanFromContext: the stored span, else the no-op span, whose
\* SpanContext is the zero value; a nil context gives the no-op span too.
SpanFromContext(c) ==
    IF c.nil \/ ~Value(c.chain, currentSpanKey).found
    THEN SpanEntry(ZeroID(TraceIDLen), ZeroID(SpanIDLen))
    ELSE Value(c.chain, currentSpanKey).entry

(***************************************************************************)
(* log.go: the context field extractor.  A result is [panic, val]: panic   *)
(* is a runtime panic (a method call on a nil context.Context).            *)
(***************************************************************************)
Returns(val) == [panic |-> FALSE, val |-> val]
Panics == [panic |-> TRUE, val |-> ""]

extractTraceIDCustomFirst(c) ==
    IF ~c.nil /\ Value(c.chain, traceIDKey).found
              /\ Value(c.chain, traceIDKey).entry.val # ""
    THEN Returns(Value(c.chain, traceIDKey).entry.val)
    ELSE IF IsValid(SpanFromContext(c))
    THEN Returns(TraceIDString(SpanFromContext(c).tid))
    ELSE IF c.nil THEN Panics
    ELSE Returns("")

extractTraceID(c) ==
    IF IsValid(SpanFromContext(c))
    THEN Returns(TraceIDString(SpanFromContext(c).tid))
    ELSE IF c.nil THEN Panics
    ELSE IF Value(c.chain, traceIDKey).found
            /\ Value(c.chain, traceIDKey).entry.val # ""
    THEN Returns(Value(c.chain, traceIDKey).entry.val)
    ELSE Returns("")

TraceIDFromContext(c) == extractTraceID(c)

RequestIDFromContext(c) ==
    IF c.nil THEN Returns("")
    ELSE IF Value(c.chain, requestIDKey).found
    THEN Returns(Value(c.chain, requestIDKey).entry.val)
    ELSE Returns("")

\* zap.String(key, val)
Field(key, val) == [key |-> key, val |-> val]

\* zap.Logger.With(fields...): a clone with the fields added to its core;
\* the logger itself when there is no field.
WithInPlace(logger, fields, id) == [logger EXCEPT !.fields = @ \o fields]

With(logger, fields, id) ==
    IF fields = <<>> THEN logger
    ELSE [logger EXCEPT !.id = id, !.fields = @ \o fields]

\* FromContext, lines 267-278: the fields collected from a non-nil context.
ContextFieldsUnchecked(c) ==
    (IF extractTraceID(c).val # ""
     THEN <<Field("traceID", extractTraceID(c).val)>> ELSE <<>>)
    \o (IF Value(c.chain, requestIDKey).found
        THEN <<Field("requestID", Value(c.chain, requestIDKey).entry.val)>> ELSE <<>>)

ContextFieldsTraceOnly(c) ==
    IF extractTraceID(c).val # ""
    THEN <<Field("traceID", extractTraceID(c).val)>> ELSE <<>>

ContextFields(c) ==
    (IF extractTraceID(c).val # ""
     THEN <<Field("traceID", extractTraceID(c).val)>> ELSE <<>>)
    \o (IF Value(c.chain, requestIDKey).found
           /\ Value(c.chain, requestIDKey).entry.val # ""
        THEN <<Field("requestID", Value(c.chain, requestIDKey).entry.val)>> ELSE <<>>)

\* FromContext(ctx) with global the value of std and id the address a
\* derived logger gets.  It cannot panic: extractTraceID is reached only
\* with a non-nil context.
FromContext(c, global, id) ==
    IF c.nil THEN global
    ELSE IF Len(ContextFields(c)) = 0 THEN global
    ELSE With(global, ContextFields(c), id)

(***************************************************************************)
(* log.go: the global logger slot.                                         *)
(***************************************************************************)
\* The identity of a newly allocated logger: an address no live logger has.
FreshId(live) == CHOOSE i \in 0..Cardinality(live) :
                     i \notin live /\ \A j \in 0..Cardinality(live) : j \notin live => i <= j

\* var mu sync.Mutex: its zero value is unlocked. sees is the set of
\* loggers whose construction happens before the last Unlock, hence before
\* whatever follows the next Lock.
Unlocked == [holder |-> "", sees |-> {0}]

\* The goroutines of the program, and one that is in no call: package
\* init() has built logger 0 before any of them runs.
Goroutines == {"g1", "g2", "g3"}
Idle == [pc |-> "idle", opts |-> <<>>, sees |-> {0}]

NoWriter == [unset |-> TRUE]       \* the framework's writer variable not assigned
Slots == {"out", "err"}

\* The loggers some variable of the program still points to: std, the
\* adapters, and the logger a caller got from FromContext.
Live ==
    {std.id}
    \cup {w[s].logger.id : s \in {t \in Slots : w[t] # NoWriter}}
    \cup (IF ev.name \in {"FromContext", "LoggerLog", "GetLogger"}
          THEN {ev.logger.id} ELSE {})

InitLoggerOnPrevious(opts, id) == New(Apply(Apply(NewOptions, lastInit), opts), id)

\* Init, lines 190-192: the logger Init stores in std.
InitLogger(opts, id) == New(Apply(NewOptions, opts), id)

\* The package-level emission functions and the zapcore level of each.
EmitFns == {"Debug", "Info", "Warn", "Error"}
FnLevel(fn) ==
    CASE fn = "Debug" -> DebugLevel
      [] fn = "Info" -> InfoLevel
      [] fn = "Warn" -> WarnLevel
      [] fn = "Error" -> ErrorLevel

\* package init(): std = New(NewOptions())
LogInit ==
    /\ std = New(NewOptions, 0)
    /\ lastInit = <<>>
    /\ w = [out |-> NoWriter, err |-> NoWriter]
    /\ ctx = Background
    /\ ev = [name |-> "init"]
    /\ mu = Unlocked
    /\ gor = [g \in Goroutines |-> Idle]

\* The argument lists of Init: up to MaxOpts options from the set U.
OptSeqs(U) == UNION {[1..n -> U] : n \in 0..MaxOpts}

\* Init(opts...)
Init(opts) ==
    /\ std' = InitLogger(opts, FreshId(Live))
    /\ lastInit' = opts
    /\ ev' = [name |-> "Init", opts |-> opts]
    /\ UNCHANGED <<w, ctx>>
    /\ UNCHANGED <<optVars, concVars>>

\* Debug(msg) / Info(msg) / Warn(msg) / Error(msg)
Emit(fn, msg) ==
    /\ ev' = [name |-> fn, msg |-> msg, via |-> std.id, out |-> Log(std, FnLevel(fn), msg)]
    /\ UNCHANGED <<std, lastInit, w, ctx>>
    /\ UNCHANGED <<optVars, concVars>>

\* The options the model's callers pass to Init, and the argument lists
\* they make of them.
InitOption ==
    [name : {"WithLevel"}, arg : SevenLevels]
    \cup [name : {"WithFormat"}, arg : {"json"}]

InitArgs == OptSeqs(InitOption)

Next ==
    \/ \E opts \in InitArgs : Init(opts)
    \/ \E fn \in EmitFns : Emit(fn, "m")

InitLog == OptsIdle /\ LogInit

Spec == InitLog /\ [][Next]_vars

(***************************************************************************)
(* The gin writer adapters (GinWriter, GinErrorWriter, zapWriter.Write).   *)
(* A message is a sequence of bytes.                                       *)
(***************************************************************************)
NewLine == 10                       \* '\n'
Bytes == {NewLine, 97}
Messages == UNION {[1..n -> Bytes] : n \in 0..MaxMsg}

\* GinWriter(): &zapWriter{logger: std, level: zapcore.InfoLevel}
GinWriterOf(logger) == [logger |-> logger, level |-> InfoLevel]

\* GinErrorWriter(): &zapWriter{logger: std, level: zapcore.ErrorLevel}
GinErrorWriterOf(logger) == [logger |-> logger, level |-> ErrorLevel]

RECURSIVE WriteMsgTrimAll(_)
WriteMsgTrimAll(p) ==
    IF Len(p) > 0 /\ p[Len(p)] = NewLine
    THEN WriteMsgTrimAll(SubSeq(p, 1, Len(p) - 1)) ELSE p

\* zapWriter.Write, lines 53-56: the message handed to the logger.
WriteMsg(p) ==
    IF Len(p) > 0 /\ p[Len(p)] = NewLine THEN SubSeq(p, 1, Len(p) - 1) ELSE p

\* zapWriter.Write, lines 59-70: the logger method the switch selects.
WriteLevel(wr) ==
    IF wr.level \in {DebugLevel, InfoLevel, WarnLevel, ErrorLevel}
    THEN wr.level ELSE InfoLevel

\* zapWriter.Write(p): the calls it makes on w.logger, each with what the
\* logger wrote, and the (n, err) it returns.
zapWriterWrite(wr, p) ==
    [ calls |-> << [ logger |-> wr.logger.id,
                     level |-> WriteLevel(wr),
                     msg |-> WriteMsg(p),
                     out |-> Log(wr.logger, WriteLevel(wr), WriteMsg(p)) ] >>,
      n |-> Len(p),
      err |-> NoError ]

\* gin.DefaultWriter = log.GinWriter()
GinWriter ==
    /\ w' = [w EXCEPT !.out = GinWriterOf(std)]
    /\ ev' = [name |-> "GinWriter"]
    /\ UNCHANGED <<std, lastInit, ctx>>
    /\ UNCHANGED <<optVars, concVars>>

\* gin.DefaultErrorWriter = log.GinErrorWriter()
GinErrorWriter ==
    /\ w' = [w EXCEPT !.err = GinErrorWriterOf(std)]
    /\ ev' = [name |-> "GinErrorWriter"]
    /\ UNCHANGED <<std, lastInit, ctx>>
    /\ UNCHANGED <<optVars, concVars>>

\* the framework writes one of its log lines: w[slot].Write(p)
Write(slot, p) ==
    /\ w[slot] # NoWriter
    /\ ev' = [name |-> "Write", slot |-> slot, p |-> p, ret |-> zapWriterWrite(w[slot], p)]
    /\ UNCHANGED <<std, lastInit, w, ctx>>
    /\ UNCHANGED <<optVars, concVars>>

\* The argument lists the callers of this part of the model pass to Init.
FewInitArgs == {<<>>, <<[name |-> "WithLevel", arg |-> "error"]>>}

NextGin ==
    \/ \E opts \in FewInitArgs : Init(opts)
    \/ GinWriter
    \/ GinErrorWriter
    \/ \E slot \in Slots, p \in Messages : Write(slot, p)

SpecGin == InitLog /\ [][NextGin]_vars

(***************************************************************************)
(* SpecCtx: callers build request contexts, derive loggers from them with  *)
(* FromContext and log through them, while Init may replace the global     *)
(* logger.                                                                 *)
(***************************************************************************)
\* ctx := context.Background()
CtxBackground ==
    /\ ctx' = Background
    /\ ev' = [name |-> "Background"]
    /\ UNCHANGED <<std, lastInit, w>>
    /\ UNCHANGED <<optVars, concVars>>

\* the caller has no context: ctx := nil
CtxNil ==
    /\ ctx' = NilCtx
    /\ ev' = [name |-> "nil"]
    /\ UNCHANGED <<std, lastInit, w>>
    /\ UNCHANGED <<optVars, concVars>>

\* ctx = ContextWithTraceID(ctx, traceID)
CtxWithTraceID(traceID) ==
    /\ Len(ctx.chain) < MaxCtx
    /\ ctx' = IF ctx.nil THEN ctx ELSE ContextWithTraceID(ctx, traceID)
    /\ ev' = [name |-> "ContextWithTraceID", parent |-> ctx, arg |-> traceID,
              panic |-> ctx.nil]
    /\ UNCHANGED <<std, lastInit, w>>
    /\ UNCHANGED <<optVars, concVars>>

\* ctx = ContextWithRequestID(ctx, requestID)
CtxWithRequestID(requestID) ==
    /\ Len(ctx.chain) < MaxCtx
    /\ ctx' = IF ctx.nil THEN ctx ELSE ContextWithRequestID(ctx, requestID)
    /\ ev' = [name |-> "ContextWithRequestID", parent |-> ctx, arg |-> requestID,
              panic |-> ctx.nil]
    /\ UNCHANGED <<std, lastInit, w>>
    /\ UNCHANGED <<optVars, concVars>>

\* the tracing middleware: ctx = trace.ContextWithSpan(ctx, span)
CtxWithSpan(span) ==
    /\ Len(ctx.chain) < MaxCtx
    /\ ctx' = IF ctx.nil THEN ctx ELSE [ctx EXCEPT !.chain = Append(@, span)]
    /\ ev' = [name |-> "ContextWithSpan", parent |-> ctx, panic |-> ctx.nil]
    /\ UNCHANGED <<std, lastInit, w>>
    /\ UNCHANGED <<optVars, concVars>>

\* logger := FromContext(ctx)
CallFromContext ==
    /\ ev' = [name |-> "FromContext", ctx |-> ctx, global |-> std.id,
              logger |-> FromContext(ctx, std, FreshId(Live))]
    /\ UNCHANGED <<std, lastInit, w, ctx>>
    /\ UNCHANGED <<optVars, concVars>>

\* logger.Debug(msg) / Info / Warn / Error on the logger FromContext returned
LoggerLog(fn, msg) ==
    /\ ev.name \in {"FromContext", "LoggerLog"}
    /\ ev' = [name |-> "LoggerLog", ctx |-> ev.ctx, global |-> ev.global,
              logger |-> ev.logger, fn |-> fn,
              out |-> Log(ev.logger, FnLevel(fn), msg)]
    /\ UNCHANGED <<std, lastInit, w, ctx>>
    /\ UNCHANGED <<optVars, concVars>>

\* TraceIDFromContext(ctx)
CallTraceIDFromContext ==
    /\ ev' = [name |-> "TraceIDFromContext", ctx |-> ctx, ret |-> TraceIDFromContext(ctx)]
    /\ UNCHANGED <<std, lastInit, w, ctx>>
    /\ UNCHANGED <<optVars, concVars>>

\* RequestIDFromContext(ctx)
CallRequestIDFromContext ==
    /\ ev' = [name |-> "RequestIDFromContext", ctx |-> ctx,
              ret |-> RequestIDFromContext(ctx)]
    /\ UNCHANGED <<std, lastInit, w, ctx>>
    /\ UNCHANGED <<optVars, concVars>>

NextCtx ==
    \/ \E opts \in FewInitArgs : Init(opts)
    \/ \E fn \in EmitFns : Emit(fn, "m")
    \/ CtxBackground
    \/ CtxNil
    \/ \E t \in TraceIDs : CtxWithTraceID(t)
    \/ \E r \in RequestIDs : CtxWithRequestID(r)
    \/ \E span \in Spans : CtxWithSpan(span)
    \/ CallFromContext
    \/ \E fn \in EmitFns : LoggerLog(fn, "m")
    \/ CallTraceIDFromContext
    \/ CallRequestIDFromContext

SpecCtx == InitLog /\ [][NextCtx]_vars

(***************************************************************************)
(* SpecOpts: a caller builds an Options value, one option at a time.       *)
(***************************************************************************)
NoOp == [name |-> "none"]

InitOpts == OptsIdle /\ LogInit

\* o := NewOptions()
OptNewOptions ==
    /\ oPrev' = o
    /\ o' = NewOptions
    /\ op' = [name |-> "NewOptions", n |-> 0]
    /\ UNCHANGED <<cfg, verr>>
    /\ UNCHANGED logVars

\* opt(o) for one With* option
OptCall ==
    \E opt \in Option :
        /\ op.n < MaxApply
        /\ oPrev' = o
        /\ o' = CallOption(opt, o)
        /\ op' = [name |-> opt.name, arg |-> opt.arg, n |-> op.n + 1]
        /\ UNCHANGED <<cfg, verr>>
        /\ UNCHANGED logVars

NextOpts == OptNewOptions \/ OptCall

SpecOpts == InitOpts /\ [][NextOpts]_vars

(***************************************************************************)
(* SpecCfg: a configuration source delivers a Config; the caller validates *)
(* it and converts it to Options.                                          *)
(***************************************************************************)
\* the configuration source has filled in a Config (or left the pointer nil);
\* nothing has been derived from it yet
InitCfg ==
    /\ cfg \in Config \cup {NilConfig}
    /\ verr = NotCalled
    /\ o = NewOptions
    /\ oPrev = NewOptions
    /\ op = [name |-> "Load", n |-> 0]
    /\ LogInit

\* err := cfg.Validate()
CfgValidate ==
    /\ verr' = Validate(cfg)
    /\ op' = [name |-> "Validate", n |-> 0]
    /\ UNCHANGED <<o, oPrev, cfg>>
    /\ UNCHANGED logVars

\* o := cfg.ToOptions()
CfgToOptions ==
    /\ oPrev' = NewOptions
    /\ o' = ToOptions(cfg)
    /\ op' = [name |-> "ToOptions", n |-> 0]
    /\ UNCHANGED <<cfg, verr>>
    /\ UNCHANGED logVars

NextCfg == CfgValidate \/ CfgToOptions

SpecCfg == InitCfg /\ [][NextCfg]_vars

(***************************************************************************)
(* Claims about the configuration model.                                   *)
(***************************************************************************)

\* C1 (as claimed): WithLevel(s) stores s exactly when s is one of the seven
\* severity strings, and for every other s, including "" and upper- or
\* mixed-case spellings, leaves the whole Options value as it was.
C1_WithLevelSevenOnly ==
    op.name = "WithLevel" =>
        IF op.arg \in SevenLevels
        THEN o = [oPrev EXCEPT !.Level = op.arg]
        ELSE o = oPrev

\* C10 (as claimed): for a non-nil Config, Validate returns an error if and
\* only if MaxSize, MaxAge or MaxBackups is negative.
C10_ErrorIffNegative ==
    (verr # NotCalled /\ cfg # NilConfig) =>
        (verr # NoError <=> (cfg.MaxSize < 0 \/ cfg.MaxAge < 0 \/ cfg.MaxBackups < 0))

\* C10 (amended): for a non-nil Config whose Level is empty or one of the
\* seven severities and whose Format is empty, "json" or "console", Validate
\* returns an error if and only if MaxSize, MaxAge or MaxBackups is negative;
\* and whatever the Level and Format, a negative knob always gives an error.
C10_ErrorIffNegativeWhenEnumsValid ==
    (verr # NotCalled /\ cfg # NilConfig) =>
        /\ (cfg.MaxSize < 0 \/ cfg.MaxAge < 0 \/ cfg.MaxBackups < 0) => verr # NoError
        /\ (/\ cfg.Level \in SevenLevels \cup {""}
            /\ cfg.Format \in {"", "json", "console"}
            /\ verr # NoError)
           => (cfg.MaxSize < 0 \/ cfg.MaxAge < 0 \/ cfg.MaxBackups < 0)

\* C10 witness: Validate has rejected a Config whose only fault is MaxAge.
C10_Witness ==
    /\ cfg # NilConfig
    /\ verr = "log.max_age must be non-negative"
    /\ cfg.Level = "info" /\ cfg.Format = "json"
    /\ cfg.MaxSize = 100 /\ cfg.MaxAge = -1 /\ cfg.MaxBackups = 3

(***************************************************************************)
(* Claims about the global logger slot and the writer adapters.            *)
(***************************************************************************)
\* The seven severities in increasing order, and the severity of each
\* package-level emission function.
SeverityOrder == <<"debug", "info", "warn", "error", "dpanic", "panic", "fatal">>
Rank(s) == CHOOSE i \in 1..Len(SeverityOrder) : SeverityOrder[i] = s
FnSeverity(fn) ==
    CASE fn = "Debug" -> "debug"
      [] fn = "Info" -> "info"
      [] fn = "Warn" -> "warn"
      [] fn = "Error" -> "error"

\* C2: after Init(WithLevel(L)) with L one of the seven severities, a
\* package-level emission function of severity s writes one entry (to
\* stdout, with its message) if s is at or above L and nothing otherwise.
C2_EmitsIffAtOrAboveLevel ==
    (/\ ev.name \in EmitFns
     /\ Len(lastInit) = 1
     /\ lastInit[1].name = "WithLevel"
     /\ lastInit[1].arg \in SevenLevels)
    => IF Rank(FnSeverity(ev.name)) >= Rank(lastInit[1].arg)
       THEN /\ Len(ev.out) = 1
            /\ ev.out[1].sink = "stdout"
            /\ ev.out[1].msg = ev.msg
            /\ ev.out[1].level = FnLevel(ev.name)
       ELSE ev.out = <<>>

\* C2 witness: after Init(WithLevel("warn")), Warn has written its entry.
C2_Witness ==
    /\ lastInit = <<[name |-> "WithLevel", arg |-> "warn"]>>
    /\ ev.name = "Warn"
    /\ Len(ev.out) = 1

\* C2 witness of the other side: after Init(WithLevel("warn")), Info wrote nothing.
C2_WitnessDropped ==
    /\ lastInit = <<[name |-> "WithLevel", arg |-> "warn"]>>
    /\ ev.name = "Info"
    /\ ev.out = <<>>

C6_WitnessDropped ==
    /\ ev.name = "Write"
    /\ ev.slot = "out"
    /\ ev.p = <<97, NewLine>>
    /\ ev.ret.calls[1].out = <<>>
    /\ ev.ret.n = 2

\* C7 (as claimed): a Write on an adapter goes through the logger that is
\* the global logger at the time of the write, also when Init replaced the
\* global logger after the adapter was created.
C7_WriteThroughCurrentGlobal ==
    ev.name = "Write" =>
        /\ ev.ret.calls[1].logger = std.id
        /\ ev.ret.calls[1].out = Log(std, ev.ret.calls[1].level, ev.ret.calls[1].msg)

(***************************************************************************)
(* Claims about the context field extractor.                               *)
(***************************************************************************)
\* The value a context carries for a key of log.go: the one stored last by
\* the setter, "" when none was stored.
RECURSIVE Carried(_, _)
Carried(chain, key) ==
    IF chain = <<>> THEN ""
    ELSE IF chain[Len(chain)].key = key THEN chain[Len(chain)].val
    ELSE Carried(SubSeq(chain, 1, Len(chain) - 1), key)

\* Whether the span a context carries (the one stored last) is valid.
RECURSIVE HasValidSpan(_)
HasValidSpan(chain) ==
    IF chain = <<>> THEN FALSE
    ELSE IF chain[Len(chain)].key = currentSpanKey
         THEN /\ chain[Len(chain)].tid # ZeroID(TraceIDLen)
              /\ chain[Len(chain)].sid # ZeroID(SpanIDLen)
         ELSE HasValidSpan(SubSeq(chain, 1, Len(chain) - 1))

\* The hex form of SomeID(TraceIDLen), the one non-zero trace id of Spans.
SomeTraceIDHex == "4b00000000000000000000000000000a"

\* What C3 says of the logger FromContext returned for context c and of the
\* entries written through it.  A context that carries neither identifier
\* is one with no non-empty stored value and no valid span.
C3_Both(c) ==
    LET both == << Field("traceID", Carried(c.chain, traceIDKey)),
                   Field("requestID", Carried(c.chain, requestIDKey)) >>
    IN  /\ ev.logger.fields = both
        /\ ev.name = "LoggerLog" =>
               \A i \in 1..Len(ev.out) : ev.out[i].fields = both

C3_Neither(c) ==
    (\/ c.nil
     \/ /\ Carried(c.chain, traceIDKey) = ""
        /\ Carried(c.chain, requestIDKey) = ""
        /\ ~HasValidSpan(c.chain))
    => /\ ev.logger = std
       /\ ev.logger.fields = <<>>
       /\ ev.name = "LoggerLog" =>
              \A i \in 1..Len(ev.out) : ev.out[i].fields = <<>>

\* C3 (as claimed): for a context carrying a non-empty trace id T and request
\* id R from the setters, the logger FromContext returns attaches exactly
\* traceID=T and requestID=R to every entry; for a nil context or one
\* carrying neither, it is the global logger itself and attaches nothing.
C3_FromContextFields ==
    ev.name \in {"FromContext", "LoggerLog"} =>
        /\ (/\ ~ev.ctx.nil
            /\ Carried(ev.ctx.chain, traceIDKey) # ""
            /\ Carried(ev.ctx.chain, requestIDKey) # "") => C3_Both(ev.ctx)
        /\ C3_Neither(ev.ctx)

\* C3 (amended): the fields are exactly traceID=T and requestID=R when the
\* context carrying T and R holds no valid tracing span (with one, traceID
\* is the span's trace id); the rest as claimed.
C3_FromContextFieldsNoSpan ==
    ev.name \in {"FromContext", "LoggerLog"} =>
        /\ (/\ ~ev.ctx.nil
            /\ Carried(ev.ctx.chain, traceIDKey) # ""
            /\ Carried(ev.ctx.chain, requestIDKey) # ""
            /\ ~HasValidSpan(ev.ctx.chain)) => C3_Both(ev.ctx)
        /\ C3_Neither(ev.ctx)

\* C3 witness: an entry was written through the logger derived from a
\* context carrying T and R, and it has both fields.
C3_Witness ==
    /\ ev.name = "LoggerLog"
    /\ ev.ctx.chain = <<StringEntry(traceIDKey, "T"), StringEntry(requestIDKey, "R")>>
    /\ ev.logger.id # std.id
    /\ Len(ev.out) = 1
    /\ ev.out[1].fields = <<Field("traceID", "T"), Field("requestID", "R")>>

\* C3 witness of the other case: FromContext(nil) returned the global logger
\* after an Init replaced it.
C3_WitnessNil ==
    /\ ev.name = "FromContext"
    /\ ev.ctx.nil
    /\ lastInit # <<>>
    /\ ev.logger = std

\* The three accessors agree on contexts a and b.
SameResults(a, b) ==
    /\ FromContext(a, std, FreshId(Live)) = FromContext(b, std, FreshId(Live))
    /\ TraceIDFromContext(a) = TraceIDFromContext(b)
    /\ RequestIDFromContext(a) = RequestIDFromContext(b)

SetterKey(name) == IF name = "ContextWithTraceID" THEN traceIDKey ELSE requestIDKey

\* C4 (as claimed): for any context, also one that already carries a
\* non-empty identifier, storing "" with a setter changes the result of none
\* of FromContext, TraceIDFromContext, RequestIDFromContext.
C4_EmptySetterChangesNothing ==
    (/\ ev.name \in {"ContextWithTraceID", "ContextWithRequestID"}
     /\ ev.arg = ""
     /\ ~ev.panic)
    => SameResults(ctx, ev.parent)

\* C4 (amended): for a non-nil context that carries no non-empty value of
\* the identifier the setter stores, storing "" changes the result of none
\* of the three accessors.
C4_EmptySetterChangesNothingWhenUnset ==
    (/\ ev.name \in {"ContextWithTraceID", "ContextWithRequestID"}
     /\ ev.arg = ""
     /\ ~ev.panic
     /\ Carried(ev.parent.chain, SetterKey(ev.name)) = "")
    => SameResults(ctx, ev.parent)

\* C4 witness: "" was stored as the request id of a context that carries
\* only a trace id, and as the trace id of one that carries only a request id.
C4_Witness ==
    /\ ev.name = "ContextWithRequestID"
    /\ ev.arg = ""
    /\ ev.parent.chain = <<StringEntry(traceIDKey, "T")>>
    /\ ctx.chain = <<StringEntry(traceIDKey, "T"), StringEntry(requestIDKey, "")>>
    /\ FromContext(ctx, std, FreshId(Live)).fields = <<Field("traceID", "T")>>

\* The trace id C5 expects a non-nil context to give.
C5_Expected(c) ==
    IF HasValidSpan(c.chain) THEN SomeTraceIDHex
    ELSE Carried(c.chain, traceIDKey)

\* The value of field key among fields, "" when there is none.
FieldOf(fields, key) ==
    IF \E i \in 1..Len(fields) : fields[i].key = key
    THEN fields[CHOOSE i \in 1..Len(fields) : fields[i].key = key].val
    ELSE ""

\* C5: on a non-nil context the trace id (from TraceIDFromContext, and as
\* the traceID field of FromContext's logger) is the valid span's trace id
\* whatever the setter stored, else the non-empty stored value, else empty
\* (no field); the request id is the stored one whatever the span.
C5_TraceIDPriority ==
    /\ (ev.name = "TraceIDFromContext" /\ ~ev.ctx.nil) =>
            ev.ret = Returns(C5_Expected(ev.ctx))
    /\ (ev.name = "RequestIDFromContext" /\ ~ev.ctx.nil) =>
            ev.ret = Returns(Carried(ev.ctx.chain, requestIDKey))
    /\ (ev.name = "FromContext" /\ ~ev.ctx.nil) =>
            /\ FieldOf(ev.logger.fields, "traceID") = C5_Expected(ev.ctx)
            /\ FieldOf(ev.logger.fields, "requestID") = Carried(ev.ctx.chain, requestIDKey)
            /\ \A i \in 1..Len(ev.logger.fields) : ev.logger.fields[i].val # ""

\* C5 witness: the context carries the stored trace id T and a valid span,
\* and TraceIDFromContext returned the span's.
C5_Witness ==
    /\ ev.name = "TraceIDFromContext"
    /\ ev.ctx.chain = << SpanEntry(SomeID(TraceIDLen), SomeID(SpanIDLen)),
                         StringEntry(traceIDKey, "T") >>
    /\ ev.ret.val = SomeTraceIDHex

\* C5 witness of the fallback: an invalid span, and the stored T returned.
C5_WitnessFallback ==
    /\ ev.name = "TraceIDFromContext"
    /\ ev.ctx.chain = << StringEntry(traceIDKey, "T"),
                         SpanEntry(SomeID(TraceIDLen), ZeroID(SpanIDLen)) >>
    /\ ev.ret.val = "T"

(***************************************************************************)
(* SpecReinit: one caller re-initialises the global logger again and       *)
(* again, with options of every kind, and reads it back.                   *)
(***************************************************************************)
\* logger := GetLogger()
GetLogger ==
    /\ ev' = [name |-> "GetLogger", logger |-> std]
    /\ UNCHANGED <<std, lastInit, w, ctx>>
    /\ UNCHANGED <<optVars, concVars>>

\* The options this caller passes to Init: levels WithLevel takes and levels
\* it ignores, both formats, development mode and an output list.
ReinitOption ==
    [name : {"WithLevel"}, arg : {"debug", "error", "", "bogus"}]
    \cup [name : {"WithFormat"}, arg : {"json", "console"}]
    \cup {[name |-> "WithDevelopment", arg |-> TRUE],
          [name |-> "WithOutputPaths", arg |-> <<"Stderr", "stdout">>]}

ReinitArgs == OptSeqs(ReinitOption)

NextReinit ==
    \/ \E opts \in ReinitArgs : Init(opts)
    \/ GetLogger
    \/ \E fn \in {"Debug", "Error"} : Emit(fn, "m")

SpecReinit == InitLog /\ [][NextReinit]_vars

(***************************************************************************)
(* SpecConc: goroutines call Init, the emission functions, GetLogger and   *)
(* FromContext concurrently.  Init is three steps (mu.Lock, the build and  *)
(* the store into std, the deferred mu.Unlock); the readers load std with  *)
(* no lock.  A load of std that no happens-before edge orders after the    *)
(* construction of the logger it finds is a data race: the fields the      *)
(* reader then loads hold either what New stored or still their zero       *)
(* value.                                                                  *)
(***************************************************************************)
\* The argument lists the goroutines pass to Init.
ConcInitArgs ==
    {<<>>,
     <<[name |-> "WithLevel", arg |-> "error"]>>,
     <<[name |-> "WithLevel", arg |-> "debug"], [name |-> "WithFormat", arg |-> "json"]>>}

\* The fields of a *zap.Logger a racing reader may find unwritten.
RacyFields == {"level", "encoder", "ws"}

\* logger as a reader finds it when the stores New made to the fields in F
\* are not visible to it: those fields hold their zero value.
Zeroed(logger, F) ==
    [logger EXCEPT !.level = IF "level" \in F THEN 0 ELSE @,
                   !.encoder = IF "encoder" \in F THEN "" ELSE @,
                   !.ws = IF "ws" \in F THEN <<>> ELSE @]

\* What goroutine g can find behind std when it loads it without the lock.
Views(g) ==
    IF std.id \in gor[g].sees
    THEN {std}
    ELSE {Zeroed(std, F) : F \in SUBSET RacyFields}

\* Init, line 188: mu.Lock()
InitLock(g, opts) ==
    /\ gor[g].pc = "idle"
    /\ mu.holder = ""
    /\ mu' = [mu EXCEPT !.holder = g]
    /\ gor' = [gor EXCEPT ![g] = [pc |-> "locked", opts |-> opts,
                                  sees |-> gor[g].sees \cup mu.sees]]
    /\ ev' = [name |-> "Lock", g |-> g]
    /\ UNCHANGED <<std, lastInit, w, ctx>>
    /\ UNCHANGED optVars

\* Init, lines 190-192: o := NewOptions(); o.Apply(opts...); std = New(o)
InitStore(g) ==
    /\ gor[g].pc = "locked"
    /\ LET id == FreshId(Live)
       IN  /\ std' = InitLogger(gor[g].opts, id)
           /\ gor' = [h \in Goroutines |->
                        IF h = g
                        THEN [gor[h] EXCEPT !.pc = "stored", !.sees = @ \cup {id}]
                        ELSE [gor[h] EXCEPT !.sees = @ \ {id}]]
           /\ mu' = [mu EXCEPT !.sees = @ \ {id}]
    /\ lastInit' = gor[g].opts
    /\ ev' = [name |-> "Store", g |-> g]
    /\ UNCHANGED <<w, ctx>>
    /\ UNCHANGED optVars

\* Init, line 189: the deferred mu.Unlock()
InitUnlock(g) ==
    /\ gor[g].pc = "stored"
    /\ mu' = [holder |-> "", sees |-> gor[g].sees]
    /\ gor' = [gor EXCEPT ![g] = [pc |-> "idle", opts |-> <<>>, sees |-> gor[g].sees]]
    /\ ev' = [name |-> "Unlock", g |-> g]
    /\ UNCHANGED <<std, lastInit, w, ctx>>
    /\ UNCHANGED optVars

\* Info(msg) / Error(msg) called by goroutine g: std.Info(msg, fields...)
GoEmit(g, fn, msg) ==
    /\ gor[g].pc = "idle"
    /\ \E view \in Views(g) :
           ev' = [name |-> fn, g |-> g, msg |-> msg, ptr |-> std, view |-> view,
                  out |-> Log(view, FnLevel(fn), msg)]
    /\ UNCHANGED <<std, lastInit, w, ctx>>
    /\ UNCHANGED <<optVars, concVars>>

\* GetLogger() called by goroutine g, which then uses the logger
GoGetLogger(g) ==
    /\ gor[g].pc = "idle"
    /\ \E view \in Views(g) :
           ev' = [name |-> "GetLogger", g |-> g, ptr |-> std, view |-> view,
                  logger |-> view]
    /\ UNCHANGED <<std, lastInit, w, ctx>>
    /\ UNCHANGED <<optVars, concVars>>

\* FromContext(ctx) called by goroutine g
GoFromContext(g) ==
    /\ gor[g].pc = "idle"
    /\ \E view \in Views(g) :
           ev' = [name |-> "FromContext", g |-> g, ptr |-> std, view |-> view,
                  logger |-> FromContext(ctx, view, FreshId(Live))]
    /\ UNCHANGED <<std, lastInit, w, ctx>>
    /\ UNCHANGED <<optVars, concVars>>

NextConc ==
    \/ \E g \in Goroutines, opts \in ConcInitArgs : InitLock(g, opts)
    \/ \E g \in Goroutines : InitStore(g)
    \/ \E g \in Goroutines : InitUnlock(g)
    \/ \E g \in Goroutines, fn \in {"Info", "Error"} : GoEmit(g, fn, "m")
    \/ \E g \in Goroutines : GoGetLogger(g)
    \/ \E g \in Goroutines : GoFromContext(g)

SpecConc == InitLog /\ [][NextConc]_vars

(***************************************************************************)
(* Claims about re-initialisation.                                         *)
(***************************************************************************)
\* The options of an argument list that take effect: every option but a
\* WithLevel whose level WithLevel does not take.
C8_Effective(opts) ==
    SelectSeq(opts, LAMBDA x : x.name = "WithLevel" => UnmarshalText(x.arg)[1])

\* The argument of the last option called name in opts, or default.
C8_Last(opts, name, default) ==
    LET at == {i \in 1..Len(opts) : opts[i].name = name}
    IN  IF at = {} THEN default
        ELSE opts[CHOOSE i \in at : \A j \in at : j <= i].arg

\* The default configuration with the options of one Init call applied:
\* each field is what the last option for that field gave, or its default.
C8_Options(opts) ==
    LET e == C8_Effective(opts)
    IN  [ OutputPaths |-> C8_Last(e, "WithOutputPaths", <<"stdout">>),
          ErrorOutputPaths |-> C8_Last(e, "WithErrorOutputPaths", <<"stderr">>),
          Level |-> C8_Last(e, "WithLevel", "info"),
          Format |-> C8_Last(e, "WithFormat", "console"),
          DisableCaller |-> C8_Last(e, "WithDisableCaller", FALSE),
          DisableStacktrace |-> C8_Last(e, "WithDisableStacktrace", FALSE),
          Filename |-> C8_Last(e, "WithFilename", ""),
          MaxSize |-> C8_Last(e, "WithMaxSize", 0),
          MaxAge |-> C8_Last(e, "WithMaxAge", 0),
          MaxBackups |-> C8_Last(e, "WithMaxBackups", 0),
          Compress |-> C8_Last(e, "WithCompress", FALSE),
          Development |-> C8_Last(e, "WithDevelopment", FALSE) ]

\* C8: after any sequence of completed Init calls the global logger is the
\* logger of the default configuration with only the options of the most
\* recent Init applied, the last option for a field winning; GetLogger
\* returns that logger and the emission functions log through it.  Nothing
\* an earlier Init set is left.
C8_OnlyLastInitApplies ==
    LET expected == New(C8_Options(lastInit), std.id)
    IN  /\ std = expected
        /\ ev.name = "GetLogger" => ev.logger = expected
        /\ ev.name \in EmitFns => ev.out = Log(expected, FnLevel(ev.name), ev.msg)

\* C8 witness: the example of the claim.  std is at address 0 again, so the
\* default logger was replaced at least twice; the last Init gave
\* WithFormat("json") only, and GetLogger returns a json logger at info.
C8_Witness ==
    /\ lastInit = <<[name |-> "WithFormat", arg |-> "json"]>>
    /\ std.id = 0
    /\ ev.name = "GetLogger"
    /\ ev.logger.encoder = "json"
    /\ ev.logger.level = InfoLevel

\* C8 witness of "a later option wins": Init(WithLevel("debug"),
\* WithLevel("error")) and Debug writes nothing.
C8_WitnessLaterWins ==
    /\ lastInit = <<[name |-> "WithLevel", arg |-> "debug"],
                    [name |-> "WithLevel", arg |-> "error"]>>
    /\ ev.name = "Debug"
    /\ ev.out = <<>>

\* The goroutines between mu.Lock() and mu.Unlock() of Init.
C9_InInit == {g \in Goroutines : gor[g].pc \in {"locked", "stored"}}

\* At most one Init is between acquiring and releasing the lock.
C9_MutualExclusion == Cardinality(C9_InInit) <= 1

\* logger is completely built: the default logger, or the logger one Init
\* call builds from its options alone.
C9_Complete(logger) ==
    \/ logger = New(NewOptions, logger.id)
    \/ \E opts \in ConcInitArgs : logger = New(C8_Options(opts), logger.id)

\* C9: with goroutines calling Init concurrently with goroutines calling
\* the emission functions, GetLogger or FromContext, at most one Init holds
\* the lock at any time, and every read of std finds a completely built
\* logger (the one stored there, the default one or the one of exactly one
\* Init call), never a partially built one.
C9_ReadersSeeBuiltLogger ==
    /\ C9_MutualExclusion
    /\ ev.name \in {"Info", "Error", "GetLogger", "FromContext"}
       => /\ ev.view = ev.ptr
          /\ C9_Complete(ev.view)

(***************************************************************************)
(* SpecBuild: a caller builds an Options value one option at a time, builds*)
(* loggers from it with New and logs through them, asks NewOptions for a   *)
(* fresh value, and re-initialises the global logger in between.           *)
(***************************************************************************)
\* logger := New(o): the logger built, and o as New leaves it
OptNew ==
    /\ oPrev' = o
    /\ o' = NewOpts(o)
    /\ op' = [name |-> "New", n |-> op.n, logger |-> New(o, FreshId(Live))]
    /\ UNCHANGED <<cfg, verr>>
    /\ UNCHANGED logVars

\* logger.Debug(msg) / logger.Error(msg) on the logger New just returned
BuiltLog(fn, msg) ==
    /\ op.name = "New"
    /\ op' = [name |-> "Log", n |-> op.n, logger |-> op.logger, fn |-> fn,
              msg |-> msg, out |-> Log(op.logger, FnLevel(fn), msg)]
    /\ UNCHANGED <<o, oPrev, cfg, verr>>
    /\ UNCHANGED logVars

NextBuild ==
    \/ OptNewOptions
    \/ OptCall
    \/ OptNew
    \/ \E fn \in {"Debug", "Error"} : BuiltLog(fn, "m")
    \/ Init(<<[name |-> "WithLevel", arg |-> "error"]>>)

SpecBuild == InitOpts /\ [][NextBuild]_vars

(***************************************************************************)
(* Further claims about the configuration model.                           *)
(***************************************************************************)
\* A Config whose fields other than Level are all valid.
C11_OthersValid(c) ==
    /\ c.Format \in {"", "json", "console"}
    /\ c.MaxSize >= 0 /\ c.MaxAge >= 0 /\ c.MaxBackups >= 0

\* C11: Validate returns an error for every Config whose Level is a
\* non-empty string outside the seven severities; an empty Level causes no
\* error (with the other fields valid, Validate returns nil); and Validate
\* leaves the Config as it was.
C11_ValidateLevel ==
    /\ [](( verr # NotCalled /\ cfg # NilConfig) =>
            /\ (cfg.Level # "" /\ cfg.Level \notin SevenLevels) => verr # NoError
            /\ (cfg.Level = "" /\ C11_OthersValid(cfg)) => verr = NoError
            /\ (cfg.Level = "" /\ verr # NoError) => verr # "log.level must be one of")
    /\ [][op'.name = "Validate" => cfg' = cfg]_vars

\* C11 witness: Validate has rejected a Config for its Level "bogus" alone.
C11_Witness ==
    /\ cfg # NilConfig
    /\ cfg.Level = "bogus"
    /\ C11_OthersValid(cfg)
    /\ op.name = "Validate"
    /\ verr = "log.level must be one of"

\* C11 witness of the other side: a valid Config with Level "" validated.
C11_WitnessEmpty ==
    /\ cfg # NilConfig
    /\ cfg.Level = ""
    /\ C11_OthersValid(cfg)
    /\ op.name = "Validate"
    /\ verr = NoError

\* C12: every call to NewOptions returns Level "info", Format "console",
\* OutputPaths ["stdout"], ErrorOutputPaths ["stderr"], all booleans false,
\* Filename empty and MaxSize, MaxAge, MaxBackups zero, whatever NewOptions,
\* option, New and Init calls came before it.
C12_DefaultsAlways ==
    op.name = "NewOptions" =>
        /\ o.Level = "info"
        /\ o.Format = "console"
        /\ o.OutputPaths = <<"stdout">>
        /\ o.ErrorOutputPaths = <<"stderr">>
        /\ ~o.DisableCaller /\ ~o.DisableStacktrace /\ ~o.Compress /\ ~o.Development
        /\ o.Filename = ""
        /\ o.MaxSize = 0 /\ o.MaxAge = 0 /\ o.MaxBackups = 0

\* C12 witness: NewOptions called after Init replaced the global logger and
\* after the value returned before (oPrev) was changed by options and by New
\* (development mode with output to stderr, its level moved to "debug").
C12_Witness ==
    /\ op.name = "NewOptions"
    /\ oPrev.Development /\ oPrev.Level = "debug"
    /\ oPrev.OutputPaths = <<"Stderr", "stdout">>
    /\ std.level = ErrorLevel
    /\ o.Level = "info" /\ o.OutputPaths = <<"stdout">>

(***************************************************************************)
(* Further claims about the context field extractor.                       *)
(***************************************************************************)
\* The entries of out that carry a traceID or requestID field.
C13_Tagged(out) ==
    {i \in 1..Len(out) :
        \E j \in 1..Len(out[i].fields) : out[i].fields[j].key \in {"traceID", "requestID"}}

\* C13: FromContext does not change the global logger: a FromContext call
\* leaves std the instance it was, the global logger has no field and the
\* entries the package-level functions emit carry no traceID or requestID;
\* a logger FromContext returns with fields is another instance than std.
C13_FromContextKeepsGlobal ==
    /\ [][ev'.name = "FromContext" => std' = std]_vars
    /\ [](/\ std.fields = <<>>
          /\ ev.name \in EmitFns => C13_Tagged(ev.out) = {}
          /\ (ev.name = "FromContext" /\ ev.logger.fields # <<>>)
             => (ev.logger.id # std.id /\ ev.global = std.id))

\* C13 witness: FromContext has returned a derived logger with both fields
\* while std is the instance it was and has none.
C13_Witness ==
    /\ ev.name = "FromContext"
    /\ Len(ev.logger.fields) = 2
    /\ ev.global = std.id
    /\ ev.logger.id # std.id
    /\ std.fields = <<>>

\* C13 witness: the derived logger has written an entry with its fields.
C13_WitnessDerivedEntry ==
    /\ ev.name = "LoggerLog"
    /\ Len(ev.out) = 1
    /\ C13_Tagged(ev.out) = {1}

(***************************************************************************)
(* Claims about the logger factory.                                        *)
(***************************************************************************)
\* The severity a level string of the model parses to, by name; a string
\* that is no level parses to nothing and the factory falls back to info.
C14_Parsed(level) ==
    CASE level \in {"debug"} -> DebugLevel
      [] level \in {"info", "Info", ""} -> InfoLevel
      [] level \in {"warn", "WARN"} -> WarnLevel
      [] level \in {"error"} -> ErrorLevel
      [] level \in {"dpanic"} -> DPanicLevel
      [] level \in {"panic"} -> PanicLevel
      [] level \in {"fatal"} -> FatalLevel
      [] OTHER -> InfoLevel

\* C14: New(o) with o.Development and o.Level = "info" gives a logger whose
\* minimum severity is debug; with o.Development it records caller info
\* even if o.DisableCaller; with o.Development and another level, or
\* without o.Development, the minimum severity is the parsed o.Level and
\* caller info is recorded exactly when o.DisableCaller is false.
C14_DevelopmentNormalization ==
    op.name = "New" =>
        /\ op.logger.level = IF oPrev.Development /\ oPrev.Level = "info"
                             THEN DebugLevel
                             ELSE C14_Parsed(oPrev.Level)
        /\ op.logger.addCaller = IF oPrev.Development THEN TRUE
                                 ELSE ~oPrev.DisableCaller

\* C14 witness: a development-mode logger built from level "info" with
\* caller info disabled.
C14_Witness ==
    /\ op.name = "New"
    /\ oPrev.Development /\ oPrev.Level = "info" /\ oPrev.DisableCaller
    /\ op.logger.level = DebugLevel
    /\ op.logger.addCaller

\* C14 witness of the other side: development mode with level "error" keeps
\* the level.
C14_WitnessOtherLevel ==
    /\ op.name = "New"
    /\ oPrev.Development /\ oPrev.Level = "error"
    /\ op.logger.level = ErrorLevel

\* C15: New(o) leaves every field of o as it was before the call.
C15_NewKeepsOptions ==
    op.name = "New" => o = oPrev

\* The path names of the model equal to "stdout" / "stderr" ignoring case.
C16_IsStdout(path) == path \in {"stdout", "STDOUT", "Stdout"}
C16_IsStderr(path) == path \in {"stderr", "STDERR", "Stderr"}

\* The sinks the configuration opts resolves to.
C16_Sinks(opts) ==
    (IF \E i \in 1..Len(opts.OutputPaths) : C16_IsStdout(opts.OutputPaths[i])
     THEN {"stdout"} ELSE {})
    \cup (IF \E i \in 1..Len(opts.OutputPaths) : C16_IsStderr(opts.OutputPaths[i])
          THEN {"stderr"} ELSE {})
    \cup (IF opts.Filename # "" THEN {"file"} ELSE {})

C16_WitnessNoSink ==
    /\ op.name = "Log"
    /\ oPrev.OutputPaths = <<"app.log">>
    /\ oPrev.Filename = ""
    /\ op.fn = "Error"
    /\ op.out = <<>>

\* C17: FromContext, TraceIDFromContext and RequestIDFromContext return
\* normally, without a runtime panic, for every context, a nil one
\* included; on a nil context FromContext returns the global logger and
\* both identifier accessors return the empty string.
C17_AccessorsTotal ==
    /\ ev.name \in {"TraceIDFromContext", "RequestIDFromContext"} =>
          /\ ev.ret # Panics
          /\ ev.ctx.nil => ev.ret = Returns("")
    /\ (ev.name = "FromContext" /\ ev.ctx.nil) => ev.logger = std


====
